---- MODULE Spec2Model ----
(***************************************************************************)
(* Workflow orchestration engine of paraclete (backend/app/agents) and the *)
(* agent endpoints of backend/app/api/v1/agents.py.                        *)
(*                                                                         *)
(* A workflow instance is the AgentState record threaded through the nodes *)
(* of the graph built in graph.py.  A node returns Command(goto, update);  *)
(* the update is applied to the state and the node named by goto runs next *)
(* (graph.py:81-82, "edges are determined dynamically by Command.goto").   *)
(* Texts are sequences of characters so that the classifier's regular      *)
(* expressions and substring tests are computed, not assumed.              *)
(***************************************************************************)
EXTENDS Integers, Sequences, FiniteSets, TLC

None == "None"

(***************************************************************************)
(* Texts: the task a user submits and the content of assistant messages.   *)
(***************************************************************************)
Tasks == {"T_reverse", "T_models", "T_commit", "T_design", "T_review", "T_deploy", "T_fix", "T_hotfix",
          "T_research", "T_refactor", "T_steps"}

AITexts == {"A_done", "A_and"}

\* generate_review_summary of a review without findings
ReviewTexts == {"A_review"}

Texts == Tasks \cup AITexts \cup ReviewTexts

Content(id) ==
  CASE id = "T_reverse" -> <<"C","r","e","a","t","e"," ","a"," ","f","u","n","c","t","i","o","n"," ","t","o"," ","r","e","v","e","r","s","e"," ","a"," ","s","t","r","i","n","g">>
    [] id = "T_models" -> <<"C","r","e","a","t","e"," ","a"," ","u","s","e","r"," ","m","o","d","e","l"," ","a","n","d"," ","c","r","e","a","t","e"," ","a"," ","p","r","o","d","u","c","t"," ","m","o","d","e","l"," ","a","n","d"," ","c","r","e","a","t","e"," ","a","n"," ","o","r","d","e","r"," ","m","o","d","e","l">>
    [] id = "T_commit" -> <<"C","o","m","m","i","t"," ","t","h","e","s","e"," ","c","h","a","n","g","e","s"," ","a","n","d"," ","p","u","s","h"," ","t","o"," ","m","a","i","n">>
    [] id = "T_design" -> <<"D","e","s","i","g","n"," ","t","h","e"," ","s","y","s","t","e","m"," ","a","r","c","h","i","t","e","c","t","u","r","e">>
    [] id = "T_review" -> <<"R","e","v","i","e","w"," ","t","h","e"," ","c","o","d","e">>
    [] id = "T_deploy" -> <<"I","m","p","l","e","m","e","n","t"," ","t","h","e"," ","d","e","p","l","o","y"," ","s","c","r","i","p","t">>
    [] id = "T_fix" -> <<"F","i","x"," ","t","h","e"," ","l","o","g","i","n"," ","c","r","a","s","h">>
    [] id = "T_hotfix" -> <<"F","i","x"," ","t","h","e"," ","d","e","p","l","o","y"," ","c","r","a","s","h">>
    [] id = "T_research" -> <<"R","e","s","e","a","r","c","h"," ","c","a","c","h","i","n","g"," ","s","t","r","a","t","e","g","i","e","s">>
    [] id = "T_refactor" -> <<"R","e","f","a","c","t","o","r"," ","t","h","e"," ","p","a","r","s","e","r">>
    [] id = "T_steps" -> <<"R","e","s","e","a","r","c","h"," ","c","a","c","h","i","n","g"," ","a","n","d"," ","t","h","e","n"," ","s","u","m","m","a","r","i","z","e"," ","i","t">>
    [] id = "A_done" -> <<"D","o","n","e",".">>
    [] id = "A_review" -> <<"#","#"," ","C","o","d","e"," ","R","e","v","i","e","w"," ","S","u","m","m","a","r","y","\n","\n","*","*","U+2705"," ","C","o","d","e"," ","l","o","o","k","s"," ","g","o","o","d"," ","-"," ","N","o"," ","m","a","j","o","r"," ","i","s","s","u","e","s"," ","f","o","u","n","d","*","*","\n">>
    [] id = "A_and" -> <<"A","d","d","e","d"," ","t","h","e"," ","m","o","d","e","l"," ","a","n","d"," ","u","p","d","a","t","e","d"," ","t","h","e"," ","t","e","s","t","s">>

(***************************************************************************)
(* String primitives: str.lower(), `x in s`, slices, character classes.    *)
(***************************************************************************)
UpperChars == <<"A","B","C","D","E","F","G","H","I","J","K","L","M","N","O","P","Q","R","S","T","U","V","W","X","Y","Z">>

LowerChars == <<"a","b","c","d","e","f","g","h","i","j","k","l","m","n","o","p","q","r","s","t","u","v","w","x","y","z">>

LowerChar(c) ==
  IF \E i \in 1..26 : UpperChars[i] = c
  THEN LowerChars[CHOOSE i \in 1..26 : UpperChars[i] = c]
  ELSE c

lower(s) == [i \in 1..Len(s) |-> LowerChar(s[i])]

Slice(s, a, b) == IF a > b THEN <<>> ELSE [i \in 1..(b - a + 1) |-> s[a + i - 1]]

StartsAt(s, i, w) ==
  /\ i >= 1
  /\ i + Len(w) - 1 <= Len(s)
  /\ \A k \in 1..Len(w) : s[i + k - 1] = w[k]

Contains(s, w) == \E i \in 1..(Len(s) + 1) : StartsAt(s, i, w)

IsDigit(c) == c \in {"0","1","2","3","4","5","6","7","8","9"}

IsSpace(c) == c \in {" ", "\n", "\t"}

\* length of the maximal run of characters satisfying a class, from position i
RECURSIVE SpaceRun(_, _)
SpaceRun(s, i) == IF i <= Len(s) /\ IsSpace(s[i]) THEN 1 + SpaceRun(s, i + 1) ELSE 0

RECURSIVE DigitRun(_, _)
DigitRun(s, i) == IF i <= Len(s) /\ IsDigit(s[i]) THEN 1 + DigitRun(s, i + 1) ELSE 0

RECURSIVE LineRun(_, _)
LineRun(s, i) == IF i <= Len(s) /\ s[i] # "\n" THEN 1 + LineRun(s, i + 1) ELSE 0

(***************************************************************************)
(* TaskClassifier.TASK_PATTERNS.  A pattern is an alternation; each        *)
(* alternative is a literal `a`, or `a.*(b1|b2|...)` when b is non-empty.  *)
(***************************************************************************)
Lit(a) == [a |-> a, b |-> {}]

Gap(a, b) == [a |-> a, b |-> b]

TASK_PATTERNS == <<
  [type |-> "code_generation", alts |-> {
     Lit(<<"c","r","e","a","t","e">>), Lit(<<"i","m","p","l","e","m","e","n","t">>), Lit(<<"b","u","i","l","d">>),
     Gap(<<"w","r","i","t","e">>, {<<"f","u","n","c","t","i","o","n">>, <<"c","l","a","s","s">>, <<"c","o","m","p","o","n","e","n","t">>, <<"a","p","i">>, <<"e","n","d","p","o","i","n","t">>}),
     Gap(<<"g","e","n","e","r","a","t","e">>, {<<"c","o","d","e">>}),
     Gap(<<"a","d","d">>, {<<"f","e","a","t","u","r","e">>}) }],
  [type |-> "code_review", alts |-> {
     Lit(<<"r","e","v","i","e","w">>), Lit(<<"c","h","e","c","k">>),
     Gap(<<"a","n","a","l","y","z","e">>, {<<"c","o","d","e">>}),
     Gap(<<"f","i","n","d">>, {<<"b","u","g">>, <<"i","s","s","u","e">>, <<"p","r","o","b","l","e","m">>}),
     Gap(<<"s","e","c","u","r","i","t","y">>, {<<"a","u","d","i","t">>, <<"c","h","e","c","k">>, <<"r","e","v","i","e","w">>}),
     Gap(<<"p","e","r","f","o","r","m","a","n","c","e">>, {<<"r","e","v","i","e","w">>, <<"a","n","a","l","y","s","i","s">>}) }],
  [type |-> "research", alts |-> {
     Lit(<<"s","e","a","r","c","h">>), Lit(<<"f","i","n","d">>),
     Gap(<<"l","o","o","k">>, {<<"u","p">>, <<"f","o","r">>}),
     Lit(<<"r","e","s","e","a","r","c","h">>), Lit(<<"i","n","v","e","s","t","i","g","a","t","e">>), Lit(<<"e","x","p","l","o","r","e">>),
     Lit(<<"d","o","c","u","m","e","n","t","a","t","i","o","n">>),
     Gap(<<"d","o","c","s">>, {<<"f","o","r">>, <<"a","b","o","u","t">>}),
     Gap(<<"w","h","a","t">>, {<<"i","s">>, <<"a","r","e">>, <<"d","o","e","s">>}),
     Gap(<<"h","o","w">>, {<<"t","o">>, <<"d","o","e","s">>, <<"c","a","n">>}) }],
  [type |-> "design", alts |-> {
     Lit(<<"d","e","s","i","g","n">>), Lit(<<"a","r","c","h","i","t","e","c","t">>), Lit(<<"p","l","a","n">>),
     Lit(<<"s","t","r","u","c","t","u","r","e">>), Lit(<<"o","r","g","a","n","i","z","e">>),
     Lit(<<"d","i","a","g","r","a","m">>), Gap(<<"f","l","o","w">>, {<<"c","h","a","r","t">>}),
     Lit(<<"u","i">>), Lit(<<"u","x">>), Lit(<<"i","n","t","e","r","f","a","c","e">>) }],
  [type |-> "debugging", alts |-> {
     Lit(<<"d","e","b","u","g">>), Lit(<<"f","i","x">>), Lit(<<"s","o","l","v","e">>), Lit(<<"r","e","s","o","l","v","e">>),
     Lit(<<"e","r","r","o","r">>), Lit(<<"e","x","c","e","p","t","i","o","n">>), Lit(<<"c","r","a","s","h">>),
     Gap(<<"n","o","t">>, {<<"w","o","r","k","i","n","g">>}), Lit(<<"b","r","o","k","e","n">>), Lit(<<"f","a","i","l","i","n","g">>) }],
  [type |-> "refactoring", alts |-> {
     Lit(<<"r","e","f","a","c","t","o","r">>), Lit(<<"o","p","t","i","m","i","z","e">>), Lit(<<"i","m","p","r","o","v","e">>),
     Gap(<<"c","l","e","a","n">>, {<<"u","p">>}), Lit(<<"r","e","o","r","g","a","n","i","z","e">>),
     Gap(<<"p","e","r","f","o","r","m","a","n","c","e">>, {<<"i","m","p","r","o","v","e">>, <<"o","p","t","i","m","i","z","e">>}) }] >>

\* re.search(alternative, s): `.` does not match a newline
AltMatches(alt, s) ==
  \E i \in 1..Len(s) :
    /\ StartsAt(s, i, alt.a)
    /\ \/ alt.b = {}
       \/ \E w \in alt.b : \E j \in (i + Len(alt.a))..Len(s) :
            /\ StartsAt(s, j, w)
            /\ \A k \in (i + Len(alt.a))..(j - 1) : s[k] # "\n"

TypeMatches(entry, s) == \E alt \in entry.alts : AltMatches(alt, s)

\* classify_task that lets the last matching category win
classify_task_last_match(task_description) ==
  LET task_lower == lower(task_description)
      hits == {n \in 1..Len(TASK_PATTERNS) : TypeMatches(TASK_PATTERNS[n], task_lower)}
  IN  IF hits = {} THEN "general"
      ELSE TASK_PATTERNS[CHOOSE n \in hits : \A m \in hits : n >= m].type

classify_task(task_description) ==
  LET task_lower == lower(task_description)
      hits == {n \in 1..Len(TASK_PATTERNS) : TypeMatches(TASK_PATTERNS[n], task_lower)}
  IN  IF hits = {} THEN "general"
      ELSE TASK_PATTERNS[CHOOSE n \in hits : \A m \in hits : n <= m].type

(***************************************************************************)
(* TaskClassifier.identify_subtasks: re.findall of numbered items, then of *)
(* bullet items, then re.split on "and".                                   *)
(***************************************************************************)
IsBullet(c) == c \in {"-", "U+2022", "*"}

MaxOf(S) == CHOOSE x \in S : \A y \in S : y <= x

\* a match of  <marker>\s+([^\n]+)  whose marker ends just before position k
ItemAfter(s, k) ==
  LET run == SpaceRun(s, k)
      ms  == {m \in 1..run : k + m <= Len(s) /\ s[k + m] # "\n"}
  IN  IF ms = {} THEN [ok |-> FALSE, cs |-> 0, ce |-> 0]
      ELSE LET cs == k + MaxOf(ms)
           IN  [ok |-> TRUE, cs |-> cs, ce |-> cs + LineRun(s, cs) - 1]

\* numbered_pattern = r"\d+\.\s+([^\n]+)" tried at start position p
NumberedAt(s, p) ==
  LET d == DigitRun(s, p)
  IN  IF d >= 1 /\ p + d <= Len(s) /\ s[p + d] = "."
      THEN ItemAfter(s, p + d + 1)
      ELSE [ok |-> FALSE, cs |-> 0, ce |-> 0]

\* bullet_pattern = r"[-•*]\s+([^\n]+)" tried at start position p
BulletAt(s, p) ==
  IF IsBullet(s[p]) THEN ItemAfter(s, p + 1) ELSE [ok |-> FALSE, cs |-> 0, ce |-> 0]

RECURSIVE FindAllNumbered(_, _)
FindAllNumbered(s, p) ==
  IF p > Len(s) THEN <<>>
  ELSE LET m == NumberedAt(s, p)
       IN  IF m.ok THEN <<Slice(s, m.cs, m.ce)>> \o FindAllNumbered(s, m.ce + 1)
           ELSE FindAllNumbered(s, p + 1)

RECURSIVE FindAllBullets(_, _)
FindAllBullets(s, p) ==
  IF p > Len(s) THEN <<>>
  ELSE LET m == BulletAt(s, p)
       IN  IF m.ok THEN <<Slice(s, m.cs, m.ce)>> \o FindAllBullets(s, m.ce + 1)
           ELSE FindAllBullets(s, p + 1)

AND == <<"a","n","d">>

\* the separator r",?\s+and\s+" tried at start position p; e is its last position
SepAt(s, p) ==
  LET q   == IF s[p] = "," THEN p + 1 ELSE p
      sp  == SpaceRun(s, q)
      sp2 == SpaceRun(s, q + sp + 3)
  IN  IF sp >= 1 /\ StartsAt(s, q + sp, AND) /\ sp2 >= 1
      THEN [ok |-> TRUE, e |-> q + sp + 3 + sp2 - 1]
      ELSE [ok |-> FALSE, e |-> 0]

RECURSIVE SplitAnd(_, _, _)
SplitAnd(s, p, start) ==
  IF p > Len(s) THEN <<Slice(s, start, Len(s))>>
  ELSE LET m == SepAt(s, p)
       IN  IF m.ok THEN <<Slice(s, start, p - 1)>> \o SplitAnd(s, m.e + 1, m.e + 1)
           ELSE SplitAnd(s, p + 1, start)

identify_subtasks(task_description) ==
  LET numbered_matches == FindAllNumbered(task_description, 1)
      bullet_matches   == FindAllBullets(task_description, 1)
      listed           == numbered_matches \o bullet_matches
      parts            == SplitAnd(task_description, 1, 1)
  IN  IF listed # <<>> THEN listed
      ELSE IF Contains(lower(task_description), <<" ","a","n","d"," ">>) /\ Len(parts) <= 4 THEN parts
      ELSE <<>>

dependency_keywords == {<<"t","h","e","n">>, <<"a","f","t","e","r">>, <<"b","e","f","o","r","e">>,
                        <<"f","i","r","s","t">>, <<"f","i","n","a","l","l","y">>, <<"d","e","p","e","n","d","s">>}

\* can_parallelize that looks for the cue words without lowering the case
can_parallelize_case_sensitive(subtasks) ==
  IF Len(subtasks) <= 1 THEN FALSE
  ELSE ~ \E n \in 1..Len(subtasks) : \E keyword \in dependency_keywords :
           Contains(subtasks[n], keyword)

can_parallelize(subtasks) ==
  IF Len(subtasks) <= 1 THEN FALSE
  ELSE ~ \E n \in 1..Len(subtasks) : \E keyword \in dependency_keywords :
           Contains(lower(subtasks[n]), keyword)

\* supervisor_node's table
agent_routing(task_type) ==
  CASE task_type = "code_generation" -> "coder"
    [] task_type = "code_review"     -> "reviewer"
    [] task_type = "research"        -> "researcher"
    [] task_type = "design"          -> "designer"
    [] task_type = "debugging"       -> "coder"
    [] task_type = "refactoring"     -> "coder"
    [] task_type = "general"         -> "researcher"
    [] OTHER                         -> "researcher"

git_keywords == {<<"c","o","m","m","i","t">>, <<"p","u","s","h">>, <<"m","e","r","g","e">>,
                 <<"p","u","l","l"," ","r","e","q","u","e","s","t">>, <<"p","r">>, <<"d","e","p","l","o","y">>}

needs_git_approval(task_description) ==
  \E keyword \in git_keywords : Contains(lower(task_description), keyword)

\* designer.determine_design_focus, as far as designer_node's routing uses it
focus_is_architecture(task) ==
  \E word \in {<<"a","r","c","h","i","t","e","c","t","u","r","e">>,
               <<"s","y","s","t","e","m"," ","d","e","s","i","g","n">>,
               <<"m","i","c","r","o","s","e","r","v","i","c","e">>} : Contains(lower(task), word)

(***************************************************************************)
(* The classification of every text of the model, computed once.           *)
(***************************************************************************)
TypeOf == [t \in Texts |-> classify_task(Content(t))]

SubtasksOf == [t \in Texts |-> identify_subtasks(Content(t))]

ParallelOf == [t \in Texts |-> can_parallelize(SubtasksOf[t])]

GitOf == [t \in Texts |-> needs_git_approval(Content(t))]

ArchOf == [t \in Texts |-> focus_is_architecture(Content(t))]

SubTypeOf == [t \in Texts |-> [n \in 1..Len(SubtasksOf[t]) |-> classify_task(SubtasksOf[t][n])]]

(***************************************************************************)
(* AgentState (state.py).  A key the code reads with state.get(k, default) *)
(* and that was never written holds that default here.                     *)
(***************************************************************************)
AgentNames == {"supervisor", "researcher", "coder", "reviewer", "designer"}

Specialists == {"researcher", "coder", "reviewer", "designer"}

MaxRetries == 3

\* a task text: a whole text (part = 0) or the part-th sub-task of a text
Whole(id) == [id |-> id, part |-> 0]

Part(id, n) == [id |-> id, part |-> n]

\* task_description is None
NoTask == [id |-> None, part |-> 0]

RefType(r) == IF r.part = 0 THEN TypeOf[r.id] ELSE SubTypeOf[r.id][r.part]

RefArchTable == [t \in Texts |-> [n \in 1..Len(SubtasksOf[t]) |-> focus_is_architecture(SubtasksOf[t][n])]]

RefArch(r) == IF r.part = 0 THEN ArchOf[r.id] ELSE RefArchTable[r.id][r.part]

NoStatuses == [a \in AgentNames |-> "absent"]

\* initial_state of execute_agent_workflow, the other keys at their defaults
initial_state(task) ==
  [ messages            |-> << [role |-> "human", agent |-> None, text |-> task] >>,
    session_id          |-> "session",
    user_id             |-> "user",
    current_agent       |-> None,
    agent_statuses      |-> NoStatuses,
    agent_outputs       |-> <<>>,
    task_description    |-> NoTask,
    task_type           |-> None,
    subtasks            |-> <<>>,
    completed_subtasks  |-> <<>>,
    pending_changes     |-> <<>>,
    committed_files     |-> <<>>,
    requires_approval   |-> FALSE,
    approval_requests   |-> <<>>,
    approval_checkpoint_id |-> None,
    interrupt_reason    |-> None,
    security_issues     |-> <<>>,
    performance_issues  |-> <<>>,
    review_comments     |-> <<>>,
    errors              |-> <<>>,
    retry_count         |-> 0,
    max_retries         |-> MaxRetries,
    completed_at        |-> None ]

\* a sub-state that also hands the parent's agent_outputs to the branch
ParallelTaskState_with_parent_outputs(state, idx) ==
  [ messages            |-> <<>>,
    session_id          |-> state.session_id,
    user_id             |-> state.user_id,
    current_agent       |-> None,
    agent_statuses      |-> NoStatuses,
    agent_outputs       |-> state.agent_outputs,
    task_description    |-> state.subtasks[idx],
    task_type           |-> None,
    subtasks            |-> <<>>,
    completed_subtasks  |-> <<>>,
    pending_changes     |-> <<>>,
    committed_files     |-> <<>>,
    requires_approval   |-> FALSE,
    approval_requests   |-> <<>>,
    approval_checkpoint_id |-> None,
    interrupt_reason    |-> None,
    security_issues     |-> <<>>,
    performance_issues  |-> <<>>,
    review_comments     |-> <<>>,
    errors              |-> <<>>,
    retry_count         |-> 0,
    max_retries         |-> MaxRetries,
    completed_at        |-> None ]

\* ParallelTaskState built by parallel_executor_node for sub-task idx, as a
\* specialist reads it: session_id and user_id are the parent's,
\* task_description is the sub-task, every other key a specialist reads is
\* absent and read at its default
ParallelTaskState(state, idx) ==
  [ messages            |-> <<>>,
    session_id          |-> state.session_id,
    user_id             |-> state.user_id,
    current_agent       |-> None,
    agent_statuses      |-> NoStatuses,
    agent_outputs       |-> <<>>,
    task_description    |-> state.subtasks[idx],
    task_type           |-> None,
    subtasks            |-> <<>>,
    completed_subtasks  |-> <<>>,
    pending_changes     |-> <<>>,
    committed_files     |-> <<>>,
    requires_approval   |-> FALSE,
    approval_requests   |-> <<>>,
    approval_checkpoint_id |-> None,
    interrupt_reason    |-> None,
    security_issues     |-> <<>>,
    performance_issues  |-> <<>>,
    review_comments     |-> <<>>,
    errors              |-> <<>>,
    retry_count         |-> 0,
    max_retries         |-> MaxRetries,
    completed_at        |-> None ]

\* the graph applies a node's update: `messages` has the add_messages
\* reducer, every other key is replaced by the value written
ApplyUpdate(state, update) ==
  [k \in DOMAIN state |->
     IF k \in DOMAIN update
     THEN IF k = "messages" THEN state.messages \o update.messages ELSE update[k]
     ELSE state[k]]

Command(goto, update) == [goto |-> goto, update |-> update]

AIMessage(agent, text) == [role |-> "ai", agent |-> agent, text |-> text]

HumanMessage(text) == [role |-> "human", agent |-> None, text |-> text]

AgentOutput(agent_name, task, error, critical) ==
  [agent_name |-> agent_name, task |-> task, error |-> error, critical |-> critical]

\* the task a specialist works on: task_description, else the latest message
TaskOf(state) ==
  IF state.task_description # NoTask THEN state.task_description
  ELSE IF state.messages # <<>> THEN Whole(state.messages[Len(state.messages)].text)
  ELSE NoTask

\* the except-branch shared by the four specialists
specialist_failed(state, name) ==
  Command("error_handler",
    [ agent_outputs  |-> Append(state.agent_outputs, AgentOutput(name, TaskOf(state), TRUE, FALSE)),
      errors         |-> Append(state.errors, [agent |-> name, error |-> "exception"]),
      agent_statuses |-> [state.agent_statuses EXCEPT ![name] = "failed"] ])

(***************************************************************************)
(* The nodes.  Each is a function of the state it is run on and of what    *)
(* the language model and the tools did (ok = FALSE: the try block raised);*)
(* it yields the Command the node returns.                                 *)
(***************************************************************************)
\* supervisor_node that dispatches in parallel from three sub-tasks on
supervisor_node_three_subtasks(state) ==
  IF state.messages = <<>>
  THEN Command("END", [errors |-> << [agent |-> "supervisor", error |-> "No messages to process"] >>])
  ELSE
    LET task_description == state.messages[Len(state.messages)].text
        task_type        == TypeOf[task_description]
        subtasks         == [n \in 1..Len(SubtasksOf[task_description]) |-> Part(task_description, n)]
        parallel         == ParallelOf[task_description]
        target_agent     == agent_routing(task_type)
    IN  IF parallel /\ Len(subtasks) > 2
        THEN Command("parallel_executor",
               [ task_description |-> Whole(task_description),
                 task_type        |-> task_type,
                 subtasks         |-> subtasks,
                 current_agent    |-> "supervisor",
                 agent_statuses   |-> [NoStatuses EXCEPT !["supervisor"] = "completed"] ])
        ELSE Command(target_agent,
               [ task_description  |-> Whole(task_description),
                 task_type         |-> task_type,
                 subtasks          |-> subtasks,
                 current_agent     |-> target_agent,
                 agent_statuses    |-> [NoStatuses EXCEPT !["supervisor"] = "completed", ![target_agent] = "pending"],
                 requires_approval |-> GitOf[task_description] ])

supervisor_node(state) ==
  IF state.messages = <<>>
  THEN Command("END", [errors |-> << [agent |-> "supervisor", error |-> "No messages to process"] >>])
  ELSE
    LET task_description == state.messages[Len(state.messages)].text
        task_type        == TypeOf[task_description]
        subtasks         == [n \in 1..Len(SubtasksOf[task_description]) |-> Part(task_description, n)]
        parallel         == ParallelOf[task_description]
        target_agent     == agent_routing(task_type)
    IN  IF parallel /\ Len(subtasks) > 1
        THEN Command("parallel_executor",
               [ task_description |-> Whole(task_description),
                 task_type        |-> task_type,
                 subtasks         |-> subtasks,
                 current_agent    |-> "supervisor",
                 agent_statuses   |-> [NoStatuses EXCEPT !["supervisor"] = "completed"] ])
        ELSE Command(target_agent,
               [ task_description  |-> Whole(task_description),
                 task_type         |-> task_type,
                 subtasks          |-> subtasks,
                 current_agent     |-> target_agent,
                 agent_statuses    |-> [NoStatuses EXCEPT !["supervisor"] = "completed", ![target_agent] = "pending"],
                 requires_approval |-> GitOf[task_description] ])

\* an agent_routing table that hands debugging sub-tasks to the researcher
parallel_agent_routing_debugging_to_researcher(task_type) ==
  CASE task_type = "code_generation" -> "coder"
    [] task_type = "code_review"     -> "reviewer"
    [] task_type = "research"        -> "researcher"
    [] task_type = "design"          -> "designer"
    [] task_type = "debugging"       -> "researcher"
    [] task_type = "refactoring"     -> "coder"
    [] task_type = "general"         -> "researcher"
    [] OTHER                         -> "researcher"

\* the agent_routing table of parallel_executor_node
parallel_agent_routing(task_type) ==
  CASE task_type = "code_generation" -> "coder"
    [] task_type = "code_review"     -> "reviewer"
    [] task_type = "research"        -> "researcher"
    [] task_type = "design"          -> "designer"
    [] task_type = "debugging"       -> "coder"
    [] task_type = "refactoring"     -> "coder"
    [] task_type = "general"         -> "researcher"
    [] OTHER                         -> "researcher"

\* the Send commands: one per sub-task, in order.  node is the Send's target,
\* the other fields are the ParallelTaskState it carries; task_id is
\* f"task_{idx}" with idx counted from 0, task is task_description.
parallel_executor_sends(state) ==
  [idx \in 1..Len(state.subtasks) |->
     LET target_agent == parallel_agent_routing(RefType(state.subtasks[idx]))
     IN  [ node            |-> target_agent,
           session_id      |-> state.session_id,
           user_id         |-> state.user_id,
           task_id         |-> <<"task_", idx - 1>>,
           task            |-> state.subtasks[idx],
           assigned_agent  |-> target_agent,
           status          |-> "pending",
           result          |-> None,
           error           |-> None,
           timeout_seconds |-> 300 ]]

\* the Command parallel_executor_node returns when there is nothing to send
parallel_executor_empty(state) ==
  Command("supervisor", [errors |-> << [agent |-> "parallel_executor", error |-> "No subtasks to execute"] >>])

result_aggregator_node(state) ==
  LET agent_outputs == state.agent_outputs
      failures == SelectSeq(agent_outputs, LAMBDA output : output.error)
      \* output.get("requires_approval"): no node puts the key into an
      \* AgentOutput, a caller of the node can
      requires_approval == \E n \in 1..Len(agent_outputs) :
                             /\ "requires_approval" \in DOMAIN agent_outputs[n]
                             /\ agent_outputs[n].requires_approval
  IN  IF failures # <<>>
      THEN Command("error_handler",
             [ errors      |-> failures,
               retry_count |-> state.retry_count + 1 ])
      ELSE IF requires_approval
      THEN Command("approval", [requires_approval |-> TRUE, current_agent |-> "approval"])
      ELSE Command("END",
             [ messages      |-> << AIMessage("supervisor", "M_completed") >>,
               completed_at  |-> "now",
               current_agent |-> None ])

\* error_handler_node that counts the entry at which it gives up as a retry
error_handler_node_counts_last_entry(state) ==
  LET errors      == state.errors
      retry_count == state.retry_count
      max_retries == state.max_retries
  IN  IF retry_count >= max_retries
      THEN Command("END",
             [ messages      |-> << AIMessage("error_handler", "M_failed") @@ [errors |-> errors] >>,
               completed_at  |-> "now",
               current_agent |-> None,
               retry_count   |-> retry_count + 1 ])
      ELSE Command("supervisor",
             [ retry_count |-> retry_count + 1,
               errors      |-> errors ])

\* error_handler_node that starts the retry with an empty errors list
error_handler_node_drops_errors(state) ==
  LET errors      == state.errors
      retry_count == state.retry_count
      max_retries == state.max_retries
  IN  IF retry_count >= max_retries
      THEN Command("END",
             [ messages      |-> << AIMessage("error_handler", "M_failed") @@ [errors |-> errors] >>,
               completed_at  |-> "now",
               current_agent |-> None ])
      ELSE Command("supervisor",
             [ retry_count |-> retry_count + 1,
               errors      |-> <<>> ])

\* error_handler_node that retries without counting the retry
error_handler_node_keeps_count(state) ==
  LET errors      == state.errors
      retry_count == state.retry_count
      max_retries == state.max_retries
  IN  IF retry_count >= max_retries
      THEN Command("END",
             [ messages      |-> << AIMessage("error_handler", "M_failed") @@ [errors |-> errors] >>,
               completed_at  |-> "now",
               current_agent |-> None ])
      ELSE Command("supervisor",
             [ retry_count |-> retry_count,
               errors      |-> errors ])

\* the summary message of the terminal branch carries the errors list
error_handler_node(state) ==
  LET errors      == state.errors
      retry_count == state.retry_count
      max_retries == state.max_retries
  IN  IF retry_count >= max_retries
      THEN Command("END",
             [ messages      |-> << AIMessage("error_handler", "M_failed") @@ [errors |-> errors] >>,
               completed_at  |-> "now",
               current_agent |-> None ])
      ELSE Command("supervisor",
             [ retry_count |-> retry_count + 1,
               errors      |-> errors ])

coder_node(state, ok, file_changes, summary) ==
  LET task      == TaskOf(state)
      task_type == IF state.task_type = None THEN "code_generation" ELSE state.task_type
  IN  IF ~ok THEN specialist_failed(state, "coder")
      ELSE Command(
             IF file_changes # <<>> /\ state.requires_approval THEN "approval"
             ELSE IF task_type = "code_generation" THEN "reviewer"
             ELSE IF state.subtasks # <<>> THEN "result_aggregator"
             ELSE "END",
             [ messages        |-> << AIMessage("coder", summary) >>,
               agent_outputs   |-> Append(state.agent_outputs, AgentOutput("coder", task, FALSE, FALSE)),
               pending_changes |-> state.pending_changes \o file_changes,
               current_agent   |-> None,
               agent_statuses  |-> [state.agent_statuses EXCEPT !["coder"] = "completed"] ])

researcher_node(state, ok, summary) ==
  LET task == TaskOf(state)
  IN  IF ~ok THEN specialist_failed(state, "researcher")
      ELSE Command(
             IF state.requires_approval THEN "approval"
             ELSE IF state.subtasks # <<>> /\ Len(state.completed_subtasks) < Len(state.subtasks)
                  THEN "result_aggregator"
             ELSE "END",
             [ messages       |-> << AIMessage("researcher", summary) >>,
               agent_outputs  |-> Append(state.agent_outputs, AgentOutput("researcher", task, FALSE, FALSE)),
               current_agent  |-> None,
               agent_statuses |-> [state.agent_statuses EXCEPT !["researcher"] = "completed"] ])

\* reviewer_node that looks for CRITICAL findings among the security
\* findings only
reviewer_node_security_only(state, ok, critical) ==
  LET task == TaskOf(state)
      has_critical_issues == critical = "security"
      update ==
        [ messages           |-> << AIMessage("reviewer", IF has_critical_issues THEN "M_critical" ELSE "A_review") >>,
          agent_outputs      |-> Append(state.agent_outputs, AgentOutput("reviewer", task, FALSE, has_critical_issues)),
          review_comments    |-> IF critical = "quality" THEN <<"CRITICAL">> ELSE <<>>,
          security_issues    |-> IF critical = "security" THEN <<"CRITICAL">> ELSE <<>>,
          performance_issues |-> IF critical = "performance" THEN <<"CRITICAL">> ELSE <<>>,
          current_agent      |-> None,
          agent_statuses     |-> [state.agent_statuses EXCEPT !["reviewer"] = "completed"] ]
  IN  IF ~ok THEN specialist_failed(state, "reviewer")
      ELSE IF has_critical_issues
      THEN Command("approval", update @@ [requires_approval |-> TRUE])
      ELSE Command(
             IF state.requires_approval THEN "approval"
             ELSE IF state.subtasks # <<>> THEN "result_aggregator"
             ELSE "END",
             update)

\* critical names the list holding a CRITICAL finding: "security",
\* "performance", "quality", or "none"
reviewer_node(state, ok, critical) ==
  LET task == TaskOf(state)
      has_critical_issues == critical # "none"
      update ==
        [ messages           |-> << AIMessage("reviewer", IF has_critical_issues THEN "M_critical" ELSE "A_review") >>,
          agent_outputs      |-> Append(state.agent_outputs, AgentOutput("reviewer", task, FALSE, has_critical_issues)),
          review_comments    |-> IF critical = "quality" THEN <<"CRITICAL">> ELSE <<>>,
          security_issues    |-> IF critical = "security" THEN <<"CRITICAL">> ELSE <<>>,
          performance_issues |-> IF critical = "performance" THEN <<"CRITICAL">> ELSE <<>>,
          current_agent      |-> None,
          agent_statuses     |-> [state.agent_statuses EXCEPT !["reviewer"] = "completed"] ]
  IN  IF ~ok THEN specialist_failed(state, "reviewer")
      ELSE IF has_critical_issues
      THEN Command("approval", update @@ [requires_approval |-> TRUE])
      ELSE Command(
             IF state.requires_approval THEN "approval"
             ELSE IF state.subtasks # <<>> THEN "result_aggregator"
             ELSE "END",
             update)

designer_node(state, ok, summary) ==
  LET task == TaskOf(state)
      architecture == IF task = NoTask THEN FALSE ELSE RefArch(task)
  IN  IF ~ok THEN specialist_failed(state, "designer")
      ELSE Command(
             IF state.requires_approval THEN "approval"
             ELSE IF architecture THEN "coder"
             ELSE IF state.subtasks # <<>> THEN "result_aggregator"
             ELSE "END",
             [ messages       |-> << AIMessage("designer", summary) >>,
               agent_outputs  |-> Append(state.agent_outputs, AgentOutput("designer", task, FALSE, FALSE)),
               current_agent  |-> None,
               agent_statuses |-> [state.agent_statuses EXCEPT !["designer"] = "completed"] ])

(***************************************************************************)
(* approval.py: the approval gate.                                         *)
(***************************************************************************)
prepare_approval_request(state) ==
  IF state.pending_changes # <<>> THEN "git_push"
  ELSE IF \E n \in 1..Len(state.agent_outputs) :
            state.agent_outputs[n].agent_name = "reviewer" /\ state.agent_outputs[n].critical
       THEN "command_execution"
  ELSE "command_execution"

\* a value of an Optional[bool] field: None, "True" or "False"
Bool(b) == IF b THEN "True" ELSE "False"

\* Python truthiness of such a value
Truthy(v) == v = "True"

ApprovalRequest(request_id, type) ==
  [request_id |-> request_id, type |-> type, approved |-> None, approved_by |-> None, approved_at |-> None]

\* TRUE when approval_node reaches interrupt(): it did not take the early return
approval_interrupts(state) == state.requires_approval \/ state.pending_changes # <<>>

\* approval_node whose rejection branch hands the changes to the coder
approval_node_rejection_to_coder(state, request_id, resume) ==
  IF ~ approval_interrupts(state)
  THEN Command("END", [requires_approval |-> FALSE])
  ELSE Command("coder",
         [ approval_requests |-> Append(state.approval_requests,
                                        ApprovalRequest(request_id, prepare_approval_request(state))),
           requires_approval |-> FALSE ])

\* approval_node run to its return: request_id is the uuid4 it draws, resume
\* the value interrupt() returns (the decision the graph was resumed with)
approval_node(state, request_id, resume) ==
  IF ~ approval_interrupts(state)
  THEN Command("END", [requires_approval |-> FALSE])
  ELSE
    LET approval_type    == prepare_approval_request(state)
        approval_request == ApprovalRequest(request_id, approval_type)
        state_update ==
          [ approval_requests      |-> Append(state.approval_requests, approval_request),
            approval_checkpoint_id |-> request_id,
            interrupt_reason       |-> "Awaiting human approval",
            messages               |-> << AIMessage("approval", "M_approval_required") >> ]
        \* interrupt(value=approval_request) returns `resume`; the node does
        \* not bind the returned value and reads the request it built
        approved == approval_request.approved
    IN  IF Truthy(approved)
        THEN Command(
               IF approval_type = "git_push" THEN "git_executor"
               ELSE IF approval_type = "file_write" THEN "file_executor"
               ELSE "END",
               [state_update EXCEPT !.messages = Append(@, HumanMessage("M_approved"))]
                 @@ [requires_approval |-> FALSE])
        ELSE Command("END",
               [state_update EXCEPT !.messages = Append(@, HumanMessage("M_rejected"))]
                 @@ [requires_approval |-> FALSE])

(***************************************************************************)
(* ApprovalManager (approval.py).  pending_approvals and approval_callbacks*)
(* are maps from request id; a future is "pending" or "done".              *)
(***************************************************************************)
Drop(f, k) == [x \in (DOMAIN f) \ {k} |-> f[x]]

\* result is "True", "False", or "KeyError" when line 136 deletes a callback
\* that wait_for_approval has already removed
process_approval_response(pa, cb, request_id, approved, approved_by, feedback) ==
  IF request_id \notin DOMAIN pa
  THEN [result |-> "False", pa |-> pa, cb |-> cb]
  ELSE
    LET approval == [ pa[request_id] EXCEPT !.approved = Bool(approved),
                                            !.approved_by = approved_by,
                                            !.approved_at = "now",
                                            !.feedback = IF feedback # None THEN feedback ELSE @ ]
        pa1 == [pa EXCEPT ![request_id] = approval]
        cb1 == IF request_id \in DOMAIN cb /\ cb[request_id] = "pending"
               THEN [cb EXCEPT ![request_id] = "done"] ELSE cb
    IN  IF approved THEN [result |-> "True", pa |-> pa1, cb |-> cb1]
        ELSE IF request_id \in DOMAIN cb1
             THEN [result |-> "True", pa |-> Drop(pa1, request_id), cb |-> Drop(cb1, request_id)]
             ELSE [result |-> "KeyError", pa |-> Drop(pa1, request_id), cb |-> cb1]

(***************************************************************************)
(* State of the model.                                                     *)
(*   state, next, run, branches  one workflow instance (thread): its       *)
(*                               AgentState, the node Command.goto named,  *)
(*                               whether the graph runs, is suspended at   *)
(*                               the approval gate, has ended or raised,   *)
(*                               and the Send branches in flight           *)
(*   checkpoint                  the thread's latest checkpoint            *)
(*   uuid                        number of uuid4() values drawn            *)
(*   bg, execution,              the background task of invoke_agent, the  *)
(*   session_messages, api       AgentExecution row, the session's message *)
(*                               log, the last endpoint response           *)
(*   pending_approvals,          the ApprovalManager singleton, its        *)
(*   approval_callbacks,         waiting coroutines, the last call made    *)
(*   waiters, mgr_call, decided  on it and the requests already decided    *)
(*   h                           history: last node run, entries into the  *)
(*                               error handler, the decision resumed with, *)
(*                               whether a specialist has completed under  *)
(*                               requires_approval since the approval node *)
(*                               last ran                                  *)
(***************************************************************************)
VARIABLES state, next, run, branches, checkpoint, uuid,
          bg, execution, session_messages, api,
          pending_approvals, approval_callbacks, waiters, mgr_call, decided,
          h

wf == <<state, next, run, branches, checkpoint, uuid>>

web == <<bg, execution, session_messages, api>>

mgr == <<pending_approvals, approval_callbacks, waiters, mgr_call, decided>>

vars == <<state, next, run, branches, checkpoint, uuid, bg, execution, session_messages, api,
          pending_approvals, approval_callbacks, waiters, mgr_call, decided, h>>

ExecStatuses == {"pending", "running", "completed", "failed", "interrupted", "approved", "rejected"}

\* request ids: uuid4 strings; the endpoint passes the execution's thread_id
UUIDs == {"r1", "r2"}

thread_id == "thread"

\* cap on the length of the session's message log
MaxMessages == 3

Feedbacks == {None, "fb"}

NoFunction == [x \in {} |-> None]

InitCommon ==
  /\ state = None
  /\ next = None
  /\ run = "none"
  /\ branches = <<>>
  /\ checkpoint = [id |-> 0, state |-> None, next |-> None]
  /\ uuid = 0
  /\ bg = "none"
  /\ session_messages = <<>>
  /\ api = [op |-> None]
  /\ pending_approvals = NoFunction
  /\ approval_callbacks = NoFunction
  /\ waiters = {}
  /\ mgr_call = [op |-> None]
  /\ decided = {}
  /\ h = [last |-> None, eh_entries |-> 0, worker_ok |-> FALSE, decision |-> None, committed_before |-> <<>>,
          owed |-> FALSE]

Init ==
  /\ InitCommon
  /\ execution = [status |-> "none", last_error |-> None]

Suspended == run \in {"suspended_before", "suspended_in"}

(***************************************************************************)
(* The graph (graph.py): one node runs at a time; its Command is applied   *)
(* and checkpointed in one step.  The graph is compiled with               *)
(* interrupt_before=["approval"], so a goto to approval suspends the run.  *)
(***************************************************************************)
SaveCheckpoint == checkpoint' = [id |-> checkpoint.id + 1, state |-> state', next |-> next']

History(node, cmd) ==
  [h EXCEPT !.last = node,
            !.eh_entries = IF node = "error_handler" THEN @ + 1 ELSE @,
            !.worker_ok = @ \/ (node \in Specialists /\ cmd.goto # "error_handler"),
            !.committed_before = IF cmd.goto = "approval" THEN state.committed_files ELSE @,
            !.owed = IF node = "approval" THEN FALSE
                     ELSE @ \/ (node \in Specialists /\ cmd.goto # "error_handler"
                                  /\ state.requires_approval)]

Apply(cmd) ==
  /\ state' = ApplyUpdate(state, cmd.update)
  /\ next' = cmd.goto
  /\ run' = IF cmd.goto = "END" THEN "ended"
            ELSE IF cmd.goto = "approval" THEN "suspended_before"
            ELSE "running"
  /\ SaveCheckpoint

Transition(node, cmd) ==
  /\ Apply(cmd)
  /\ h' = History(node, cmd)

\* what the language model and the tools can do in one run of a specialist
Outcomes(node) ==
  CASE node = "coder"      -> [ok : {TRUE}, changes : {<<>>, <<"app.py">>}, text : AITexts, critical : {"none"}]
                                \cup [ok : {FALSE}, changes : {<<>>}, text : {"A_done"}, critical : {"none"}]
    [] node = "reviewer"   -> [ok : {TRUE}, changes : {<<>>}, text : {"A_review"}, critical : {"none", "security", "performance", "quality"}]
                                \cup [ok : {FALSE}, changes : {<<>>}, text : {"A_done"}, critical : {"none"}]
    [] OTHER               -> [ok : {TRUE}, changes : {<<>>}, text : AITexts, critical : {"none"}]
                                \cup [ok : {FALSE}, changes : {<<>>}, text : {"A_done"}, critical : {"none"}]

RunSpecialist(node, st, o) ==
  CASE node = "coder"      -> coder_node(st, o.ok, o.changes, o.text)
    [] node = "researcher" -> researcher_node(st, o.ok, o.text)
    [] node = "reviewer"   -> reviewer_node(st, o.ok, o.critical)
    [] node = "designer"   -> designer_node(st, o.ok, o.text)

Supervisor ==
  /\ run = "running" /\ next = "supervisor"
  /\ Transition("supervisor", supervisor_node(state))
  /\ UNCHANGED <<branches, uuid, web, mgr>>

Specialist(node) ==
  /\ run = "running" /\ next = node
  /\ \E o \in Outcomes(node) : Transition(node, RunSpecialist(node, state, o))
  /\ UNCHANGED <<branches, uuid, web, mgr>>

Coder == Specialist("coder")

Researcher == Specialist("researcher")

Reviewer == Specialist("reviewer")

Designer == Specialist("designer")

\* an exception outside a node's try block leaves the node and the graph run
NodeRaises ==
  /\ run = "running"
  /\ \/ next \in Specialists \cup {"supervisor"}
     \/ next = "fanout" /\ \E i \in 1..Len(branches) : ~branches[i].done
  /\ run' = "raised"
  /\ UNCHANGED <<state, next, branches, checkpoint, uuid, web, mgr, h>>

ParallelExecutor ==
  /\ run = "running" /\ next = "parallel_executor"
  /\ IF state.subtasks = <<>>
     THEN /\ Transition("parallel_executor", parallel_executor_empty(state))
          /\ UNCHANGED branches
     ELSE /\ branches' = [i \in 1..Len(state.subtasks) |->
                            [send |-> parallel_executor_sends(state)[i], done |-> FALSE, goto |-> None]]
          /\ next' = "fanout"
          /\ UNCHANGED <<state, run>>
          /\ SaveCheckpoint
          /\ h' = [h EXCEPT !.last = "parallel_executor"]
  /\ UNCHANGED <<uuid, web, mgr>>

\* one Send branch runs its specialist on its ParallelTaskState; the branch's
\* update is written to the parent state when the branch completes
Branch(i) ==
  /\ run = "running" /\ next = "fanout"
  /\ i \in 1..Len(branches) /\ ~branches[i].done
  /\ \E o \in Outcomes(branches[i].send.node) :
       LET cmd == RunSpecialist(branches[i].send.node, ParallelTaskState(state, i), o)
       IN  /\ state' = ApplyUpdate(state, cmd.update)
           /\ branches' = [branches EXCEPT ![i] = [@ EXCEPT !.done = TRUE, !.goto = cmd.goto]]
           /\ h' = [h EXCEPT !.worker_ok = @ \/ cmd.goto # "error_handler"]
  /\ UNCHANGED <<next, run, checkpoint, uuid, web, mgr>>

\* graph.add_edge("parallel_executor", "result_aggregator")
FanIn ==
  /\ run = "running" /\ next = "fanout"
  /\ \A i \in 1..Len(branches) : branches[i].done
  /\ next' = "result_aggregator"
  /\ branches' = <<>>
  /\ UNCHANGED <<state, run>>
  /\ SaveCheckpoint
  /\ UNCHANGED <<uuid, web, mgr, h>>

\* several branches wrote a key that has no reducer in the same step: the
\* graph may refuse the writes instead of keeping the last one
FanInConflict ==
  /\ run = "running" /\ next = "fanout"
  /\ Len(branches) >= 2
  /\ \A i \in 1..Len(branches) : branches[i].done
  /\ run' = "raised"
  /\ UNCHANGED <<state, next, branches, checkpoint, uuid, web, mgr, h>>

ResultAggregator ==
  /\ run = "running" /\ next = "result_aggregator"
  /\ Transition("result_aggregator", result_aggregator_node(state))
  /\ UNCHANGED <<branches, uuid, web, mgr>>

ErrorHandler ==
  /\ run = "running" /\ next = "error_handler"
  /\ Transition("error_handler", error_handler_node(state))
  /\ UNCHANGED <<branches, uuid, web, mgr>>

\* the thread is resumed without a decision: approval_node runs up to
\* interrupt(), which suspends it again; nothing the node built is written
ApprovalInterrupt ==
  /\ run = "suspended_before" /\ bg = "finished"
  /\ approval_interrupts(state)
  /\ run' = "suspended_in"
  /\ uuid' = uuid + 1
  /\ UNCHANGED <<state, next, branches, checkpoint, web, mgr, h>>

\* the thread is resumed with a decision: approval_node runs again from its
\* first line, interrupt() returns the decision, and the node returns
ApprovalResume(decision) ==
  /\ Suspended /\ bg = "finished"
  /\ LET cmd == approval_node(state, uuid + 1, decision)
     IN  /\ Apply(cmd)
         /\ h' = [History("approval", cmd) EXCEPT !.decision = IF decision.granted THEN "granted" ELSE "rejected"]
  /\ uuid' = uuid + 1
  /\ UNCHANGED <<branches, web, mgr>>

(***************************************************************************)
(* api/v1/agents.py: the endpoints and the background task.                *)
(***************************************************************************)
invoke_agent(task) ==
  /\ execution.status = "none"
  /\ session_messages' = Append(session_messages, "user")
  /\ execution' = [status |-> "pending", last_error |-> None]
  /\ bg' = "running"
  /\ state' = initial_state(task)
  /\ next' = "supervisor"
  /\ run' = "running"
  /\ SaveCheckpoint
  /\ UNCHANGED <<branches, uuid, api, mgr, h>>

\* execute_workflow after execute_agent_workflow has returned or raised;
\* ainvoke returns the state also when the graph stopped at an interrupt
execute_workflow ==
  /\ bg = "running"
  /\ run \in {"ended", "suspended_before", "raised"}
  /\ bg' = "finished"
  /\ IF run = "raised"
     THEN /\ execution' = [execution EXCEPT !.status = "failed", !.last_error = "exception"]
          /\ UNCHANGED session_messages
     ELSE /\ execution' = [execution EXCEPT !.status = "completed"]
          /\ session_messages' = IF state.messages # <<>> THEN Append(session_messages, "assistant")
                                 ELSE session_messages
  /\ UNCHANGED <<api, wf, mgr, h>>

approve_action(approved, feedback) ==
  LET found == execution.status = "interrupted"
      r == process_approval_response(pending_approvals, approval_callbacks,
                                     thread_id, approved, "user", feedback)
      call == [op |-> "approve", approved |-> approved, suspended |-> Suspended,
               matched |-> thread_id \in DOMAIN pending_approvals]
  IN  /\ Len(session_messages) < MaxMessages
      /\ IF ~found
         THEN /\ api' = call @@ [http |-> 404, message |-> "No pending approval found for this session"]
              /\ UNCHANGED <<bg, execution, session_messages, wf, mgr, h>>
         ELSE /\ pending_approvals' = r.pa
              /\ approval_callbacks' = r.cb
              /\ decided' = IF r.result = "False" THEN decided ELSE decided \cup {thread_id}
              /\ IF r.result = "KeyError"
                 THEN /\ api' = call @@ [http |-> 500, message |-> "KeyError"]
                      /\ UNCHANGED <<execution, session_messages>>
                 ELSE /\ api' = call @@ [http |-> 200, message |-> IF approved THEN "Action approved" ELSE "Action rejected"]
                      /\ execution' = IF r.result = "True"
                                      THEN [execution EXCEPT !.status = IF approved THEN "approved" ELSE "rejected"]
                                      ELSE execution
                      /\ session_messages' = Append(session_messages, IF approved THEN "Approved" ELSE "Rejected")
              /\ UNCHANGED <<bg, waiters, mgr_call, wf, h>>

cancel_task ==
  /\ execution.status # "none"
  /\ execution' = IF execution.status \in {"pending", "running", "interrupted"}
                  THEN [execution EXCEPT !.status = "failed", !.last_error = "Cancelled by user"]
                  ELSE execution
  /\ api' = [op |-> "cancel", http |-> 200]
  /\ UNCHANGED <<bg, session_messages, wf, mgr, h>>

Decisions == [granted : BOOLEAN, by : {"user"}]

Next ==
  \/ \E task \in Tasks : invoke_agent(task)
  \/ Supervisor
  \/ Coder
  \/ Researcher
  \/ Reviewer
  \/ Designer
  \/ NodeRaises
  \/ ParallelExecutor
  \/ \E i \in 1..Len(branches) : Branch(i)
  \/ FanIn
  \/ FanInConflict
  \/ ResultAggregator
  \/ ErrorHandler
  \/ ApprovalInterrupt
  \/ \E decision \in Decisions : ApprovalResume(decision)
  \/ execute_workflow
  \/ \E approved \in BOOLEAN, feedback \in Feedbacks : approve_action(approved, feedback)
  \/ cancel_task

Spec == Init /\ [][Next]_vars

(***************************************************************************)
(* The ApprovalManager singleton used by any caller, its methods in any    *)
(* order, next to the approval endpoint.  The AgentExecution row the       *)
(* endpoint looks up has any status of ExecutionStatus.                    *)
(***************************************************************************)
request_approval(request_id) ==
  /\ request_id \notin DOMAIN pending_approvals \cup decided
  /\ pending_approvals' = (request_id :> (ApprovalRequest(request_id, "git_push") @@ [feedback |-> None]))
                             @@ pending_approvals
  /\ approval_callbacks' = (request_id :> "pending") @@ approval_callbacks
  /\ mgr_call' = [op |-> "request_approval", request_id |-> request_id, result |-> request_id]
  /\ UNCHANGED <<waiters, decided, wf, web, h>>

\* a direct call of ApprovalManager.process_approval_response
process(request_id, approved, feedback) ==
  LET r == process_approval_response(pending_approvals, approval_callbacks,
                                     request_id, approved, "user", feedback)
  IN  /\ pending_approvals' = r.pa
      /\ approval_callbacks' = r.cb
      /\ decided' = IF r.result = "False" THEN decided ELSE decided \cup {request_id}
      /\ mgr_call' = [op |-> "process_approval_response", request_id |-> request_id,
                      result |-> r.result]
      /\ UNCHANGED <<waiters, wf, web, h>>

\* wait_for_approval up to its await
wait_for_approval(request_id) ==
  /\ request_id \notin waiters
  /\ IF request_id \notin DOMAIN approval_callbacks
     THEN /\ mgr_call' = [op |-> "wait_for_approval", request_id |-> request_id, result |-> None]
          /\ UNCHANGED waiters
     ELSE /\ waiters' = waiters \cup {request_id}
          /\ UNCHANGED mgr_call
  /\ UNCHANGED <<pending_approvals, approval_callbacks, decided, wf, web, h>>

\* the await ends, by the future's result or by the timeout; the finally
\* block removes the callback if it is still registered
wait_returns(request_id) ==
  /\ request_id \in waiters
  /\ waiters' = waiters \ {request_id}
  /\ approval_callbacks' = Drop(approval_callbacks, request_id)
  /\ mgr_call' = [op |-> "wait_for_approval", request_id |-> request_id,
                  result |-> IF request_id \in DOMAIN approval_callbacks
                                /\ approval_callbacks[request_id] = "done"
                                /\ request_id \in DOMAIN pending_approvals
                                /\ Truthy(pending_approvals[request_id].approved)
                             THEN request_id ELSE None]
  /\ UNCHANGED <<pending_approvals, decided, wf, web, h>>

ManagerInit ==
  /\ InitCommon
  /\ execution \in [status : ExecStatuses, last_error : {None}]

ManagerNext ==
  \/ \E request_id \in UUIDs : request_approval(request_id)
  \/ \E request_id \in UUIDs, approved \in BOOLEAN, feedback \in Feedbacks :
       process(request_id, approved, feedback)
  \/ \E request_id \in UUIDs : wait_for_approval(request_id)
  \/ \E request_id \in UUIDs : wait_returns(request_id)
  \/ \E approved \in BOOLEAN, feedback \in Feedbacks : approve_action(approved, feedback)

ManagerSpec == ManagerInit /\ [][ManagerNext]_vars

(***************************************************************************)
(* graph.py: the conditional edge out of the approval node.                *)
(***************************************************************************)
route_from_approval(st) ==
  LET approval_requests == st.approval_requests
  IN  IF approval_requests # <<>>
         /\ Truthy(approval_requests[Len(approval_requests)].approved)
      THEN IF st.pending_changes # <<>> THEN "coder" ELSE "supervisor"
      ELSE "END"

(***************************************************************************)
(* Properties.                                                             *)
(***************************************************************************)
Started == run # "none"

Resumed == h.last = "approval" /\ h.decision # None

\* C1: at every moment of a workflow instance retry_count <= max_retries.
C1_RetryBound == Started => state.retry_count <= state.max_retries

\* C2: with max_retries = 3 and a worker that fails on every attempt, the
\* third entry into the error handler routes to the terminal state and the
\* errors list holds exactly three entries.
C2_ThirdEntryEnds ==
  (Started /\ h.last = "error_handler" /\ h.eh_entries = 3 /\ ~h.worker_ok /\ state.max_retries = 3)
    => (next = "END" /\ Len(state.errors) = 3)

\* C3: process_approval_response on a request id that was already decided
\* (approved or rejected) returns False and changes nothing.
C3_DecidedIsFinal ==
  [][\A request_id \in UUIDs, approved \in BOOLEAN, feedback \in Feedbacks :
       (request_id \in decided /\ process(request_id, approved, feedback))
         => /\ mgr_call'.result = "False"
            /\ pending_approvals' = pending_approvals
            /\ approval_callbacks' = approval_callbacks]_vars

C5_UndecidedMeansSuspended ==
  (Started /\ \E n \in 1..Len(state.approval_requests) : state.approval_requests[n].approved = None)
    => Suspended

\* C6: whenever the instance is suspended at the approval gate, the
\* checkpointed state already holds the new undecided request as the last
\* entry of approval_requests, and requires_approval is true.
C6_SuspendedIsPersisted ==
  Suspended =>
    /\ checkpoint.state.requires_approval
    /\ checkpoint.state.approval_requests # <<>>
    /\ checkpoint.state.approval_requests[Len(checkpoint.state.approval_requests)].approved = None

\* C7: after a resume with a decision the latest approval request carries
\* the decision: approved is the granted value, approved_by and approved_at
\* are set.
C7_DecisionRecorded ==
  Resumed =>
    /\ state.approval_requests # <<>>
    /\ LET latest == state.approval_requests[Len(state.approval_requests)]
       IN  /\ latest.approved = Bool(h.decision = "granted")
           /\ latest.approved_by # None
           /\ latest.approved_at # None

\* C8: after a resume, a grant continues at the coder when pending_changes is
\* non-empty and at the supervisor when it is empty; a rejection ends at the
\* terminal state.  The instance continues where the node's Command or the
\* approval edge sends it.
C8_ResumeRouting ==
  Resumed =>
    LET expected == IF h.decision = "granted"
                    THEN IF state.pending_changes # <<>> THEN "coder" ELSE "supervisor"
                    ELSE "END"
    IN  expected \in {next, route_from_approval(state)}

\* C9: a decision sent to the approval endpoint while the instance is
\* suspended at the approval gate is accepted.
C9_DecisionAccepted ==
  (api.op = "approve" /\ api.suspended) => api.http = 200

\* C10: after a rejection the instance is at the terminal state (by the
\* node's Command and by the approval edge alike), no node has run since the
\* gate, and committed_files is what it was when the gate was reached.
C10_RejectionEnds ==
  (Started /\ h.decision = "rejected")
    => /\ next = "END" /\ run = "ended"
       /\ route_from_approval(state) = "END"
       /\ h.last = "approval"
       /\ state.committed_files = h.committed_before

C10_Witness == Started /\ h.decision = "rejected" /\ run = "ended" /\ h.last = "approval"

\* the words of git_keywords that name a commit, push, merge or deploy
approval_cues == {kw \in git_keywords : kw \in {<<"c","o","m","m","i","t">>, <<"p","u","s","h">>,
                                                 <<"m","e","r","g","e">>, <<"d","e","p","l","o","y">>}}

CueOf == [t \in Texts |-> \E kw \in approval_cues : Contains(lower(Content(t)), kw)]

\* C11: no instance is at the terminal state while a specialist has completed
\* successfully with requires_approval = true and the approval node has not
\* run since.
C11_ApprovalBeforeTerminal == run = "ended" => ~h.owed

\* C12: after supervisor_node has run on a task whose text holds a commit,
\* push, merge or deploy cue, requires_approval is true, on the single route
\* and on the parallel route alike.
C12_CueSetsApproval ==
  (Started /\ h.last = "supervisor" /\ state.task_description # NoTask
     /\ CueOf[state.task_description.id])
    => state.requires_approval

\* old is a prefix of new
IsPrefix(old, new) == Len(old) <= Len(new) /\ SubSeq(new, 1, Len(old)) = old

\* C13: across every transition of an instance, single-node steps and the
\* merge of parallel branches alike, the previous agent_outputs list is a
\* prefix of the new one.
C13_OutputsAppendOnly ==
  [][Started => IsPrefix(state.agent_outputs, state'.agent_outputs)]_vars

\* every branch of the fan-out has completed and the aggregator has not run
AllBranchesDone ==
  run = "running" /\ next = "fanout" /\ \A i \in 1..Len(branches) : branches[i].done

\* C14: when result_aggregator_node runs after the first dispatch of an
\* instance, agent_outputs holds exactly one outcome for each of the N
\* sub-tasks dispatched, none missing and none duplicated.
C14_OneOutcomePerBranch ==
  (run = "running" /\ next = "result_aggregator" /\ h.last = "parallel_executor" /\ h.eh_entries = 0)
    => \A n \in 1..Len(state.subtasks) :
         Cardinality({k \in 1..Len(state.agent_outputs) :
                        state.agent_outputs[k].task = state.subtasks[n]}) = 1

\* C15: once all branches of a fan-out have completed, completed_subtasks
\* holds the sub-task of every branch that succeeded and errors holds an
\* entry for every branch that failed.
C15_BranchesMerged ==
  AllBranchesDone =>
    \A i \in 1..Len(branches) :
      IF branches[i].goto = "error_handler"
      THEN Cardinality({k \in 1..Len(state.errors) : state.errors[k].agent = branches[i].send.node})
             >= Cardinality({j \in 1..Len(branches) :
                               branches[j].goto = "error_handler"
                               /\ branches[j].send.node = branches[i].send.node})
      ELSE \E k \in 1..Len(state.completed_subtasks) :
             state.completed_subtasks[k] = branches[i].send.task

\* C16: while no approval decision has been made, the previous
\* pending_changes list is a prefix of the new one across every transition,
\* a coder that runs as a fan-out branch included.
C16_PendingChangesKept ==
  [][(Started /\ h.decision = None) => IsPrefix(state.pending_changes, state'.pending_changes)]_vars

\* C17: the errors list never loses an entry: across every transition the
\* previous errors list is a prefix of the new one.
C17_ErrorsKept ==
  [][Started => IsPrefix(state.errors, state'.errors)]_vars

\* C18: a step in which a specialist node fails (it raises, or it routes to
\* the error handler) leaves the graph running with error_handler next, and
\* its update appends one entry to errors, appends one agent_outputs record
\* with error set, and marks the worker's status failed.
C18_FailureCaptured ==
  [][\A node \in Specialists :
       (run = "running" /\ next = node /\ (run' = "raised" \/ next' = "error_handler"))
         => /\ run' = "running" /\ next' = "error_handler"
            /\ IsPrefix(state.errors, state'.errors)
            /\ Len(state'.errors) = Len(state.errors) + 1
            /\ IsPrefix(state.agent_outputs, state'.agent_outputs)
            /\ Len(state'.agent_outputs) = Len(state.agent_outputs) + 1
            /\ state'.agent_outputs[Len(state'.agent_outputs)].error
            /\ state'.agent_statuses[node] = "failed"]_vars

\* the role the supervisor hands a task category to
RoleOf(category) ==
  CASE category \in {"code_generation", "debugging", "refactoring"} -> "coder"
    [] category = "code_review"                                       -> "reviewer"
    [] category \in {"research", "general"}                           -> "researcher"
    [] category = "design"                                            -> "designer"

\* C19: after supervisor_node has run on a non-empty message log, the next
\* node is parallel_executor exactly when the classifier yields at least two
\* sub-tasks that can run in parallel; otherwise it is the role of the
\* task's category, and current_agent is that role.
C19_SupervisorRouting ==
  (Started /\ h.last = "supervisor" /\ state.messages # <<>>)
    => LET text == state.messages[Len(state.messages)].text
           dispatch == Len(SubtasksOf[text]) >= 2 /\ ParallelOf[text]
       IN  /\ (next = "parallel_executor") <=> dispatch
           /\ ~dispatch => (next = RoleOf(TypeOf[text]) /\ state.current_agent = next)

C19_Witness ==
  /\ Started /\ h.last = "supervisor"
  /\ next = "parallel_executor"
  /\ Len(state.subtasks) = 2

(***************************************************************************)
(* result_aggregator_node as a function of the outputs it is given: the    *)
(* node is applied to a state whose agent_outputs are drawn from records   *)
(* that succeeded, failed, or ask for approval.                            *)
(***************************************************************************)
MaxOutputs == 3

OutputKinds ==
  { AgentOutput("coder", Part("T_models", 1), FALSE, FALSE),
    AgentOutput("coder", Part("T_models", 2), TRUE, FALSE),
    AgentOutput("coder", Part("T_models", 3), FALSE, FALSE) @@ [requires_approval |-> TRUE] }

OutputLists == UNION { [1..n -> OutputKinds] : n \in 0..MaxOutputs }

AggregatorInit ==
  /\ \E outs \in OutputLists, rc \in 0..MaxRetries :
       state = [supervisor_node(initial_state("T_models")).update @@ initial_state("T_models")
                  EXCEPT !.agent_outputs = outs, !.retry_count = rc]
  /\ next = "result_aggregator"
  /\ run = "running"
  /\ branches = <<>>
  /\ checkpoint = [id |-> 1, state |-> state, next |-> next]
  /\ uuid = 0
  /\ bg = "running"
  /\ execution = [status |-> "pending", last_error |-> None]
  /\ session_messages = <<"user">>
  /\ api = [op |-> None]
  /\ pending_approvals = NoFunction
  /\ approval_callbacks = NoFunction
  /\ waiters = {}
  /\ mgr_call = [op |-> None]
  /\ decided = {}
  /\ h = [last |-> "parallel_executor", eh_entries |-> 0, worker_ok |-> FALSE, decision |-> None,
          committed_before |-> <<>>, owed |-> FALSE]

AggregatorNext == ResultAggregator

AggregatorSpec == AggregatorInit /\ [][AggregatorNext]_vars

route_from_reviewer(st) ==
  LET has_critical == \E n \in 1..Len(st.security_issues) : st.security_issues[n] = "CRITICAL"
  IN  IF has_critical \/ st.requires_approval THEN "approval"
      ELSE IF st.subtasks # <<>> THEN "result_aggregator"
      ELSE "END"

\* CodeReview.has_critical_issues over the findings the review left in st
has_critical_issues(st) ==
  LET all_issues == st.security_issues \o st.performance_issues \o st.review_comments
  IN  \E n \in 1..Len(all_issues) : all_issues[n] = "CRITICAL"

\* a step in which the reviewer ran on the thread's state and did not fail
ReviewerSucceeds ==
  /\ run = "running" /\ next = "reviewer"
  /\ state' # state
  /\ next' # "error_handler"

\* C21: after a successful review the reviewer routes to approval exactly
\* when some security, performance or quality finding is CRITICAL or
\* requires_approval was already true; a CRITICAL finding also sets
\* requires_approval; otherwise the next node is the aggregator when
\* sub-tasks exist and the terminal state when they do not.  The conditional
\* edge out of the reviewer names the same node.
C21_ReviewerRouting ==
  [][ ReviewerSucceeds =>
        LET critical == has_critical_issues(state')
        IN  /\ (next' = "approval") <=> (critical \/ state.requires_approval)
            /\ critical => state'.requires_approval
            /\ next' # "approval" =>
                 next' = IF state.subtasks # <<>> THEN "result_aggregator" ELSE "END"
            /\ route_from_reviewer(state') = next' ]_vars

\* the reviewer found a CRITICAL performance finding on a task that did not
\* ask for approval, and the run is suspended before the approval node
C21_Witness ==
  /\ h.last = "reviewer" /\ next = "approval"
  /\ state.performance_issues = <<"CRITICAL">>
  /\ state.security_issues = <<>>
  /\ state.requires_approval
  /\ ~GitOf[state.task_description.id]

\* a step in which error_handler_node ran
ErrorHandlerRuns ==
  /\ run = "running" /\ next = "error_handler"
  /\ state' # state

\* the keys of the state other than those in keys are the same in st and new
SameExcept(st, new, keys) == \A k \in DOMAIN st \ keys : new[k] = st[k]

\* C22: error_handler_node entered with retry_count >= max_retries routes to
\* the terminal state, appends exactly one message, which lists all recorded
\* errors, clears current_agent, sets completed_at, and leaves retry_count,
\* the errors list and every other key as they were.
C22_GiveUp ==
  [][ (ErrorHandlerRuns /\ state.retry_count >= state.max_retries) =>
        /\ next' = "END" /\ run' = "ended"
        /\ Len(state'.messages) = Len(state.messages) + 1
        /\ SubSeq(state'.messages, 1, Len(state.messages)) = state.messages
        /\ LET message == state'.messages[Len(state'.messages)]
           IN  /\ message.agent = "error_handler"
               /\ message.errors = state.errors
        /\ state'.current_agent = None
        /\ state'.completed_at # None
        /\ state'.retry_count = state.retry_count
        /\ state'.errors = state.errors
        /\ SameExcept(state, state', {"messages", "current_agent", "completed_at"}) ]_vars

\* the error handler gave up on an instance that had recorded errors
C22_Witness ==
  /\ h.last = "error_handler" /\ run = "ended"
  /\ state.retry_count >= state.max_retries
  /\ state.errors # <<>>
  /\ state.messages[Len(state.messages)].agent = "error_handler"

\* C23: error_handler_node entered with retry_count < max_retries routes
\* back to the supervisor with retry_count increased by exactly 1 and the
\* errors list as it was; no other key changes and no specialist is the next
\* node.
C23_RetryThroughSupervisor ==
  [][ (ErrorHandlerRuns /\ state.retry_count < state.max_retries) =>
        /\ next' = "supervisor" /\ next' \notin Specialists
        /\ run' = "running"
        /\ state'.retry_count = state.retry_count + 1
        /\ state'.errors = state.errors
        /\ SameExcept(state, state', {"retry_count"}) ]_vars

\* a retry was started after a specialist failed
C23_Witness ==
  /\ h.last = "error_handler" /\ next = "supervisor"
  /\ state.retry_count = 1
  /\ Len(state.errors) = 1
  /\ "agent" \in DOMAIN state.errors[1]
  /\ state.errors[1].agent \in Specialists

(***************************************************************************)
(* parallel_executor_node as a function of the sub-tasks it is given: the  *)
(* node is applied to a state whose subtasks are drawn from the task       *)
(* texts, and the branches it sends run.                                   *)
(***************************************************************************)
MaxSubtasks == 2

\* one sub-task text of each category of the classifier
SubtaskTexts == {"T_reverse", "T_commit", "T_design", "T_review", "T_fix", "T_research", "T_refactor"}

SubtaskLists == UNION { [1..n -> {Whole(t) : t \in SubtaskTexts}] : n \in 0..MaxSubtasks }

\* the parent state at the dispatch: a first pass of the supervisor, or a
\* later pass after a coder wrote a file, a reviewer failed and an approval
\* was asked for
ParentStates ==
  LET first == [initial_state("T_models") EXCEPT
                  !.task_description = Whole("T_models"),
                  !.task_type = TypeOf["T_models"],
                  !.agent_statuses = [NoStatuses EXCEPT !["supervisor"] = "completed"]]
      later == [first EXCEPT
                  !.agent_outputs = << AgentOutput("coder", Whole("T_models"), FALSE, FALSE),
                                       AgentOutput("reviewer", Whole("T_models"), TRUE, FALSE) >>,
                  !.errors = << [agent |-> "reviewer", error |-> "exception"] >>,
                  !.pending_changes = <<"app.py">>,
                  !.requires_approval = TRUE,
                  !.retry_count = 1]
  IN  {first, later}

ExecutorInit ==
  /\ \E subtasks \in SubtaskLists, parent \in ParentStates :
       state = [parent EXCEPT !.subtasks = subtasks]
  /\ next = "parallel_executor"
  /\ run = "running"
  /\ branches = <<>>
  /\ checkpoint = [id |-> 1, state |-> state, next |-> next]
  /\ uuid = 0
  /\ bg = "running"
  /\ execution = [status |-> "pending", last_error |-> None]
  /\ session_messages = <<"user">>
  /\ api = [op |-> None]
  /\ pending_approvals = NoFunction
  /\ approval_callbacks = NoFunction
  /\ waiters = {}
  /\ mgr_call = [op |-> None]
  /\ decided = {}
  /\ h = [last |-> "supervisor", eh_entries |-> 0, worker_ok |-> FALSE, decision |-> None,
          committed_before |-> <<>>, owed |-> FALSE]

ExecutorNext ==
  \/ ParallelExecutor
  \/ \E i \in 1..Len(branches) : Branch(i)

ExecutorSpec == ExecutorInit /\ [][ExecutorNext]_vars

\* a step in which parallel_executor_node ran on a state with sub-tasks
ParallelExecutorSends ==
  /\ run = "running" /\ next = "parallel_executor"
  /\ state.subtasks # <<>>
  /\ h'.last = "parallel_executor"

\* C24: for a state with N >= 1 sub-tasks parallel_executor_node returns
\* exactly N Sends; the i-th carries sub-task i and the task id made of its
\* index, the ids are pairwise distinct, and each Send targets the role the
\* supervisor's table gives for the sub-task's own category.
C24_OneSendPerSubtask ==
  [][ ParallelExecutorSends =>
        LET N == Len(state.subtasks)
        IN  /\ next' = "fanout"
            /\ Len(branches') = N
            /\ \A i \in 1..N :
                 LET send == branches'[i].send
                 IN  /\ send.task = state.subtasks[i]
                     /\ send.task_id = <<"task_", i - 1>>
                     /\ send.node = agent_routing(RefType(state.subtasks[i]))
                     /\ send.assigned_agent = send.node
            /\ \A i, j \in 1..N :
                 i # j => branches'[i].send.task_id # branches'[j].send.task_id ]_vars

\* two sub-tasks of different categories were sent to different roles
C24_Witness ==
  /\ next = "fanout" /\ Len(branches) = 2
  /\ branches[1].send.node = "coder" /\ RefType(branches[1].send.task) = "debugging"
  /\ branches[2].send.node = "reviewer"
  /\ ~branches[1].done /\ ~branches[2].done

\* a parent state that holds nothing but the ids and the one sub-task a Send
\* carries
ParentOf(send) ==
  [initial_state(None) EXCEPT
     !.session_id = send.session_id,
     !.user_id = send.user_id,
     !.subtasks = << send.task >>]

\* C25: the Send of a branch is the one parallel_executor_node builds from
\* the parent's session_id and user_id and the branch's own sub-task alone
\* (task id, description, assigned role, timeout, empty result and error),
\* and the Command a branch returns is the one its specialist returns on
\* that sub-state alone: it does not depend on what the parent state holds
\* or on what the sibling branches have written.
C25_BranchIsolated ==
  [][ /\ ParallelExecutorSends =>
           \A i \in 1..Len(branches') :
             LET send == branches'[i].send
                 own  == parallel_executor_sends(ParentOf(send))[1]
             IN  /\ send = [own EXCEPT !.task_id = <<"task_", i - 1>>]
                 /\ send.timeout_seconds = 300
                 /\ send.result = None /\ send.error = None
      /\ \A i \in 1..Len(branches) :
           (Len(branches') = Len(branches) /\ ~branches[i].done /\ branches'[i].done) =>
             LET send == branches[i].send
             IN  \E o \in Outcomes(send.node) :
                   LET cmd == RunSpecialist(send.node, ParallelTaskState(ParentOf(send), 1), o)
                   IN  /\ branches'[i].goto = cmd.goto
                       /\ state' = ApplyUpdate(state, cmd.update) ]_vars

\* a branch succeeded after its sibling had failed, from a parent state that
\* held outputs, errors and a request for approval
C25_Witness ==
  /\ next = "fanout" /\ Len(branches) = 2
  /\ branches[1].done /\ branches[1].goto = "error_handler"
  /\ branches[2].done /\ branches[2].goto # "error_handler"
  /\ state.retry_count = 1
  /\ state.agent_outputs = << AgentOutput(branches[2].send.node, branches[2].send.task, FALSE, FALSE) >>

\* C26: for a task that decomposes into 3 parallelizable code-generation
\* sub-tasks the run goes supervisor, parallel_executor, 3 coder branches,
\* result_aggregator, terminal: a coder branch that succeeded hands over to
\* the aggregator, it names no other node (reviewer, approval, error
\* handler) as the next one.
C26_FanOutPath ==
  (/\ Started /\ next = "fanout"
   /\ Len(branches) = 3
   /\ \A i \in 1..3 : /\ branches[i].send.node = "coder"
                      /\ RefType(branches[i].send.task) = "code_generation")
    => \A i \in 1..3 :
         (branches[i].done /\ branches[i].goto # "error_handler")
           => branches[i].goto = "result_aggregator"

(***************************************************************************)
(* persistence.py and execute_agent_workflow on a thread that has          *)
(* checkpoints.  The checkpointer keeps every checkpoint it was given      *)
(* (delete_checkpoints deletes nothing); the model keeps the content of    *)
(* the latest one and the ids 1..checkpoint.id of all of them.  An         *)
(* Optional[str] checkpoint id is <<>> for None and <<id>> otherwise.      *)
(***************************************************************************)
get_thread_config(thread, checkpoint_id) ==
  IF checkpoint_id # <<>>
  THEN [thread_id |-> thread, checkpoint_id |-> checkpoint_id[1]]
  ELSE [thread_id |-> thread]

\* saver.get(config): the checkpoint the config names, without a name the
\* latest one of the thread, None when there is none
saver_get(config) ==
  IF "checkpoint_id" \in DOMAIN config
  THEN IF config.checkpoint_id \in 1..checkpoint.id THEN << config.checkpoint_id >> ELSE <<>>
  ELSE IF checkpoint.id > 0 THEN << checkpoint.id >> ELSE <<>>

\* get_checkpoint that names the first checkpoint when none is asked for
get_checkpoint_defaults_to_first(thread, checkpoint_id) ==
  LET config == IF checkpoint_id # <<>>
                THEN [thread_id |-> thread, checkpoint_id |-> checkpoint_id[1]]
                ELSE [thread_id |-> thread, checkpoint_id |-> 1]
  IN  saver_get(config)

get_checkpoint(thread, checkpoint_id) ==
  LET config == IF checkpoint_id # <<>>
                THEN [thread_id |-> thread, checkpoint_id |-> checkpoint_id[1]]
                ELSE [thread_id |-> thread]
  IN  saver_get(config)

\* the keys execute_agent_workflow puts into initial_state
initial_state_keys ==
  {"messages", "session_id", "user_id", "agent_statuses", "agent_outputs", "errors", "retry_count", "max_retries"}

\* the tasks submitted to the thread so far
Submitted(st) == Cardinality({n \in 1..Len(st.messages) : st.messages[n].role = "human" /\ st.messages[n].text \in Tasks})

MaxSubmissions == 2

ThreadTasks == {"T_review", "T_fix"}

\* a caller reads a checkpoint of the thread
GetCheckpoint(checkpoint_id) ==
  /\ run \in {"ended", "suspended_before", "raised", "crashed"}
  /\ api' = [op |-> "get_checkpoint", checkpoint_id |-> checkpoint_id,
             result |-> get_checkpoint(thread_id, checkpoint_id)]
  /\ UNCHANGED <<bg, execution, session_messages, wf, mgr, h>>

\* the process dies after a node has returned and before the checkpoint of
\* the transition is written: the Command is applied in memory only
CrashAfterNode ==
  /\ run = "running"
  /\ next \in Specialists \cup {"supervisor", "error_handler"}
  /\ \E cmd \in IF next = "supervisor" THEN {supervisor_node(state)}
                ELSE IF next = "error_handler" THEN {error_handler_node(state)}
                ELSE {RunSpecialist(next, state, o) : o \in Outcomes(next)} :
       /\ state' = ApplyUpdate(state, cmd.update)
       /\ next' = cmd.goto
  /\ run' = "crashed"
  /\ bg' = "crashed"
  /\ UNCHANGED <<branches, checkpoint, uuid, execution, session_messages, api, mgr, h>>

\* execute_agent_workflow called with the config of a thread that has a
\* checkpoint (get_thread_config without a checkpoint id): the graph loads
\* the thread's checkpoint, writes initial_state to it as the input of a new
\* run and starts at the entry point
execute_agent_workflow(task) ==
  LET config == get_thread_config(thread_id, <<>>)
      loaded == saver_get(config)
      input  == [k \in initial_state_keys |-> initial_state(task)[k]]
  IN  /\ run \in {"ended", "suspended_before", "raised", "crashed"}
      /\ loaded = << checkpoint.id >>
      /\ Submitted(checkpoint.state) < MaxSubmissions
      /\ state' = ApplyUpdate(checkpoint.state, input)
      /\ next' = "supervisor"
      /\ run' = "running"
      /\ SaveCheckpoint
      /\ api' = [op |-> "execute_agent_workflow", loaded |-> loaded, rejected |-> FALSE]
      /\ h' = [h EXCEPT !.last = "START"]
      /\ UNCHANGED <<branches, uuid, bg, execution, session_messages, mgr>>

ThreadNext ==
  \/ \E task \in ThreadTasks : invoke_agent(task)
  \/ Supervisor
  \/ Coder
  \/ Reviewer
  \/ ErrorHandler
  \/ NodeRaises
  \/ execute_workflow
  \/ CrashAfterNode
  \/ execute_agent_workflow("T_review")
  \/ \E checkpoint_id \in {<<>>, <<1>>, <<checkpoint.id + 1>>} : GetCheckpoint(checkpoint_id)

ThreadSpec == Init /\ [][ThreadNext]_vars

C29_SubmitRejected ==
  [][ (api' # api /\ api'.op = "execute_agent_workflow" /\ checkpoint.id > 0)
        => (api'.rejected /\ checkpoint' = checkpoint) ]_vars

\* C30: once cancel_task has marked the execution FAILED ("Cancelled by
\* user"), its status stays FAILED: neither the completion of the workflow
\* in the background nor a later approval decision changes it, whether the
\* cancel came while a node ran, during a fan-out, or while the run was
\* suspended before the approval node.
C30_CancelIsFinal ==
  [][ (execution.status = "failed" /\ execution.last_error = "Cancelled by user")
        => execution'.status = "failed" ]_vars

(***************************************************************************)
(* TaskClassifier as a function of the text it is given.  A text is a      *)
(* sequence of words joined by single blanks; the classifier is applied to *)
(* its characters.                                                         *)
(***************************************************************************)
Words == {"Create", "review", "find", "bug", "Fix", "write", "api", "tests", "newline"}

WordChars(w) ==
  CASE w = "Create"  -> <<"C","r","e","a","t","e">>
    [] w = "review"  -> <<"r","e","v","i","e","w">>
    [] w = "find"    -> <<"f","i","n","d">>
    [] w = "bug"     -> <<"b","u","g">>
    [] w = "Fix"     -> <<"F","i","x">>
    [] w = "write"   -> <<"w","r","i","t","e">>
    [] w = "api"     -> <<"a","p","i">>
    [] w = "tests"   -> <<"t","e","s","t","s">>
    [] w = "newline" -> <<"\n">>
    [] w = "1. build" -> <<"1","."," ","b","u","i","l","d">>
    [] w = "2. test"  -> <<"2","."," ","t","e","s","t">>
    [] w = "- deploy" -> <<"-"," ","d","e","p","l","o","y">>
    [] w = "and"      -> <<"a","n","d">>
    [] w = "run tests"          -> <<"r","u","n"," ","t","e","s","t","s">>
    [] w = "First build"        -> <<"F","i","r","s","t"," ","b","u","i","l","d">>
    [] w = "add authentication" -> <<"a","d","d"," ","a","u","t","h","e","n","t","i","c","a","t","i","o","n">>
    [] w = "deploy after tests" -> <<"d","e","p","l","o","y"," ","a","f","t","e","r"," ","t","e","s","t","s">>
    [] w = "Write docs"         -> <<"W","r","i","t","e"," ","d","o","c","s">>

RECURSIVE Join(_)
Join(words) ==
  IF words = <<>> THEN <<>>
  ELSE IF Len(words) = 1 THEN WordChars(words[1])
  ELSE WordChars(words[1]) \o <<" ">> \o Join(Tail(words))

MaxWords == 3

WordLists == UNION { [1..n -> Words] : n \in 0..MaxWords }

\* the words of texts that hold list items
ListWords == {"1. build", "2. test", "- deploy", "and", "tests", "newline"}

ListWordLists == UNION { [1..n -> ListWords] : n \in 0..MaxWords }

\* sub-tasks, as identify_subtasks returns them
Phrases == {"run tests", "First build", "add authentication", "deploy after tests", "Write docs"}

MaxPhrases == 3

PhraseLists == UNION { [1..n -> Phrases] : n \in 0..MaxPhrases }

\* the pure-function runs keep the workflow's variables at their initial
\* values; api holds the call and its result
ClassifierInit ==
  /\ state = None
  /\ next = None
  /\ run = "none"
  /\ branches = <<>>
  /\ checkpoint = [id |-> 0, state |-> None, next |-> None]
  /\ uuid = 0
  /\ bg = "none"
  /\ execution = [status |-> "none", last_error |-> None]
  /\ session_messages = <<>>
  /\ \/ \E words \in WordLists : api = [op |-> "text", words |-> words, calls |-> 0]
     \/ \E words \in ListWordLists : api = [op |-> "list_text", words |-> words]
     \/ \E phrases \in PhraseLists : api = [op |-> "subtasks", phrases |-> phrases]
  /\ pending_approvals = NoFunction
  /\ approval_callbacks = NoFunction
  /\ waiters = {}
  /\ mgr_call = [op |-> None]
  /\ decided = {}
  /\ h = [last |-> None, eh_entries |-> 0, worker_ok |-> FALSE, decision |-> None, committed_before |-> <<>>,
          owed |-> FALSE]

\* TaskClassifier.classify_task(text), called once and once again
ClassifyTask ==
  /\ api.op \in {"text", "classify_task"}
  /\ api.calls < 2
  /\ api' = [op |-> "classify_task", words |-> api.words, calls |-> api.calls + 1,
             result |-> classify_task(Join(api.words))]
  /\ UNCHANGED <<bg, execution, session_messages, wf, mgr, h>>

\* TaskClassifier.identify_subtasks(text)
IdentifySubtasks ==
  /\ api.op = "list_text"
  /\ api' = [op |-> "identify_subtasks", words |-> api.words,
             result |-> identify_subtasks(Join(api.words))]
  /\ UNCHANGED <<bg, execution, session_messages, wf, mgr, h>>

\* TaskClassifier.can_parallelize(subtasks)
CanParallelize ==
  /\ api.op = "subtasks"
  /\ api' = [op |-> "can_parallelize", phrases |-> api.phrases,
             result |-> can_parallelize([n \in 1..Len(api.phrases) |-> WordChars(api.phrases[n])])]
  /\ UNCHANGED <<bg, execution, session_messages, wf, mgr, h>>

ClassifierNext ==
  \/ ClassifyTask
  \/ IdentifySubtasks
  \/ CanParallelize

ClassifierSpec == ClassifierInit /\ [][ClassifierNext]_vars

\* the order of the categories in TASK_PATTERNS
CategoryOrder == <<"code_generation", "code_review", "research", "design", "debugging", "refactoring">>

\* what the pattern table says about the words, word by word: the
\* categories a word matches alone, and the categories with a pattern
\* `first.*second` that a word and a later word of the same line match
MatchesAlone(w) ==
  CASE w = "Create" -> {"code_generation"}
    [] w = "review" -> {"code_review"}
    [] w = "find"   -> {"research"}
    [] w = "Fix"    -> {"debugging"}
    [] OTHER        -> {}

MatchesInOrder(first, second) ==
  CASE first = "write" /\ second = "api" -> {"code_generation"}
    [] first = "find" /\ second = "bug"  -> {"code_review"}
    [] OTHER                             -> {}

CategoryMatches(category, words) ==
  \/ \E i \in 1..Len(words) : category \in MatchesAlone(words[i])
  \/ \E i, j \in 1..Len(words) :
       /\ i < j
       /\ category \in MatchesInOrder(words[i], words[j])
       /\ \A k \in i..j : words[k] # "newline"

C32_FirstStrategyWins ==
  api.op = "identify_subtasks" =>
    LET text     == Join(api.words)
        numbered == FindAllNumbered(text, 1)
        bullets  == FindAllBullets(text, 1)
        parts    == SplitAnd(text, 1, 1)
    IN  api.result = IF numbered # <<>> THEN numbered
                     ELSE IF bullets # <<>> THEN bullets
                     ELSE IF Contains(lower(text), <<" ","a","n","d"," ">>) /\ Len(parts) <= 4 THEN parts
                     ELSE <<>>

\* the sub-tasks that hold a dependency cue word, whatever its case and also
\* inside a longer word
HoldsCue(phrase) == phrase \in {"First build", "add authentication", "deploy after tests"}

\* C33: can_parallelize returns true exactly when there are at least 2
\* sub-tasks and none of them contains one of the cue words then, after,
\* before, first, finally, depends.
C33_Parallelizable ==
  api.op = "can_parallelize" =>
    (api.result <=> (Len(api.phrases) >= 2 /\ \A n \in 1..Len(api.phrases) : ~HoldsCue(api.phrases[n])))

\* two sub-tasks without a cue word were found parallelizable
C33_Witness ==
  /\ api.op = "can_parallelize"
  /\ api.phrases = <<"run tests", "Write docs">>
  /\ api.result

(***************************************************************************)
(* The aggregator after a retry.                                           *)
(***************************************************************************)
\* C34: when an earlier attempt failed and went through the error handler,
\* and every worker of the retry's dispatch succeeded (a single specialist
\* handed over to the aggregator, or every branch of the fan-out completed
\* without a failure), the aggregator sends the retry to terminal or to
\* approval, never to the error handler again
C34_RetryNotRepeated ==
  LET DispatchSucceeded ==
        /\ run = "running"
        /\ \/ next = "result_aggregator" /\ h.last \in Specialists
           \/ /\ next = "fanout"
              /\ \A i \in 1..Len(branches) : branches[i].done /\ branches[i].goto # "error_handler"
  IN  (DispatchSucceeded /\ h.eh_entries >= 1)
        => result_aggregator_node(state).goto \in {"END", "approval"}

(***************************************************************************)
(* graph.py: the conditional edges registered next to the nodes' Commands, *)
(* each evaluated on the state the node's update has been applied to.      *)
(* "end" of the edge maps is the terminal state, END.                      *)
(***************************************************************************)
route_from_supervisor(st) ==
  LET current_agent == st.current_agent
  IN  IF current_agent # None THEN current_agent ELSE "END"

route_from_specialist(st) ==
  IF st.requires_approval THEN "approval"
  ELSE IF st.errors # <<>> THEN "error_handler"
  ELSE IF st.subtasks # <<>> THEN "result_aggregator"
  ELSE "END"

route_from_aggregator(st) ==
  IF st.requires_approval THEN "approval"
  ELSE IF st.errors # <<>> THEN "error_handler"
  ELSE "END"

route_from_error_handler(st) ==
  LET retry_count == st.retry_count
      max_retries == st.max_retries
  IN  IF retry_count < max_retries THEN "supervisor" ELSE "END"

\* graph.add_node: the nodes build_graph registers
RegisteredNodes == {"supervisor", "parallel_executor", "result_aggregator", "error_handler",
                    "researcher", "coder", "reviewer", "designer", "approval"}

conditional_edge(node, st) ==
  CASE node = "supervisor"                          -> route_from_supervisor(st)
    [] node \in {"researcher", "coder", "designer"} -> route_from_specialist(st)
    [] node = "reviewer"                            -> route_from_reviewer(st)
    [] node = "result_aggregator"                   -> route_from_aggregator(st)
    [] node = "approval"                            -> route_from_approval(st)
    [] node = "error_handler"                       -> route_from_error_handler(st)

\* a step in which the node ran on the thread's state and returned a Command
NodeReturns(node) ==
  /\ next = node
  /\ h'.last = node
  /\ checkpoint'.id = checkpoint.id + 1

\* C35: for every node that has a conditional edge, the goto of the Command
\* the node returns is the node its conditional-edge function computes from
\* the state the node's update has been applied to
C35_GotoIsEdge ==
  [][\A node \in RegisteredNodes \ {"parallel_executor"} :
       NodeReturns(node) => next' = conditional_edge(node, state')]_vars

(***************************************************************************)
(* The transition table against the nodes' Commands.                       *)
(***************************************************************************)
\* C36: every routing decision a node returns is a transition of the table
\* (planner -> parallel-dispatch or a specialist; specialist -> reviewer,
\* approval, aggregator, error-handler or terminal; parallel-dispatch ->
\* aggregator; aggregator -> approval, error-handler or terminal; approval ->
\* coder, planner or terminal; error-handler -> planner or terminal) and
\* names a registered node or the terminal state; the fan-out, once all its
\* branches are done, continues at the aggregator
C36_TransitionsInTable ==
  [][LET TransitionTable(node) ==
           CASE node = "supervisor"        -> {"parallel_executor"} \cup Specialists
             [] node \in Specialists       -> {"reviewer", "approval", "result_aggregator", "error_handler", "END"}
             [] node = "parallel_executor" -> {"result_aggregator"}
             [] node = "result_aggregator" -> {"approval", "error_handler", "END"}
             [] node = "approval"          -> {"coder", "supervisor", "END"}
             [] node = "error_handler"     -> {"supervisor", "END"}
     IN  /\ \A node \in RegisteredNodes :
              (NodeReturns(node) /\ next' # "fanout")
                => next' \in TransitionTable(node) \cap (RegisteredNodes \cup {"END"})
         /\ (next = "fanout" /\ next' # "fanout") => next' = "result_aggregator"]_vars

\* C37: an execution whose workflow is suspended at the approval gate is not
\* recorded with status COMPLETED
C37_SuspendedNotCompleted == Suspended => execution.status # "completed"

\* C38: process_approval_response never raises: under every interleaving of
\* request_approval, wait_for_approval and process_approval_response the
\* call returns True or False, and after a rejection that was processed the
\* request is in neither pending_approvals nor approval_callbacks
C38_ProcessNeverRaises ==
  mgr_call.op = "process_approval_response"
    => /\ mgr_call.result \in {"True", "False"}
       /\ (mgr_call.result = "True" /\ mgr_call.request_id \notin DOMAIN pending_approvals)
            => mgr_call.request_id \notin DOMAIN approval_callbacks

(***************************************************************************)
(* Termination.  The graph's run loop keeps invoking the node the last     *)
(* Command named for as long as the run has not ended, been suspended or   *)
(* raised, and every branch of a fan-out is run: a node step that stays    *)
(* possible is eventually taken.  For the planner and the dispatcher the   *)
(* fairness condition is written out with their enabling condition.       *)
(***************************************************************************)
PlannerStep == Supervisor \/ ParallelExecutor

WorkerStep ==
  \/ Coder
  \/ Researcher
  \/ Reviewer
  \/ Designer
  \/ \E i \in 1..Len(branches) : Branch(i)
  \/ FanIn
  \/ ResultAggregator
  \/ ErrorHandler

LiveSpec ==
  /\ Spec
  /\ WF_vars(WorkerStep)
  /\ \/ []<>(~(run = "running" /\ next \in {"supervisor", "parallel_executor"}))
     \/ []<><<PlannerStep>>_vars

\* the place of a node in one attempt: a Command leads from a node to one
\* further down, except the error handler's retry
NodeRank(node) ==
  CASE node = "supervisor"        -> 9
    [] node = "parallel_executor" -> 8
    [] node = "fanout"            -> 7
    [] node = "designer"          -> 6
    [] node = "researcher"        -> 6
    [] node = "coder"             -> 5
    [] node = "reviewer"          -> 4
    [] node = "result_aggregator" -> 3
    [] node = "error_handler"     -> 2
    [] node = "approval"          -> 1
    [] node = "END"               -> 0

\* a measure of the work an instance has left: the retries it may still
\* take, then the place of the next node, then the branches still to run
Rank ==
  LET Outstanding == Cardinality({i \in 1..Len(branches) : ~branches[i].done})
  IN  (state.max_retries + 1 - state.retry_count) * 100 + NodeRank(next) * 10 + Outstanding

\* a step of the workflow instance: a node or a branch has run
WorkflowStep == run # "none" /\ (checkpoint' # checkpoint \/ branches' # branches)

\* C39: every workflow instance terminates: a running instance always has a
\* node to run next, every step of an instance lowers a measure that is
\* never negative, so that no cycle repeats forever, and a run that has
\* started reaches the terminal state, is suspended at the approval gate or
\* raises
C39_Terminates ==
  /\ [](run = "running" => next \in RegisteredNodes \cup {"fanout"})
  /\ [][WorkflowStep => (Rank' < Rank /\ Rank' >= 0)]_vars
  /\ [](run = "running" => <>(run \in {"ended", "suspended_before", "suspended_in", "raised"}))

\* the error handler has retried and the instance has reached the terminal
\* state
C39_Witness == run = "ended" /\ h.eh_entries >= 1 /\ state.retry_count >= 1

\* C40: a node's update changes only the agent_statuses entries the node
\* owns (a specialist its own entry, the planner its own and that of the
\* specialist it routes to, the other nodes none); the recorded status of
\* every other worker is the same after the transition as before it, also
\* when the planner re-plans after a failure
C40_StatusFrame ==
  [][LET OwnedStatuses(node, target) ==
           IF node \in Specialists THEN {node}
           ELSE IF node = "supervisor" THEN {"supervisor"} \cup ({target} \cap Specialists)
           ELSE {}
     IN  \A node \in RegisteredNodes :
           NodeReturns(node)
             => \A worker \in AgentNames \ OwnedStatuses(node, next') :
                  state'.agent_statuses[worker] = state.agent_statuses[worker]]_vars

====
